---- MODULE Spec2Model ----
(***************************************************************************)
(* Model of generate_openshot_project.py: the slideshow timing              *)
(* (compute_photo_and_fade), the schedule loops of render_video,            *)
(* render_video_with_libopenshot and create_openshot_project, the project   *)
(* clips / transitions written by create_openshot_project, the xfade       *)
(* filter chain built by render_video and the stages of render_video: the  *)
(* scratch directory, the encoder detection, the ffmpeg / ffprobe           *)
(* invocations (each of which may fail) and the finally clause.             *)
(*                                                                          *)
(* Durations are Python floats in the source.  They are modelled as exact   *)
(* rationals <<num, den>> in lowest terms (den > 0): "/" is exact division, *)
(* int() truncates.  IEEE rounding error is not modelled.                   *)
(*                                                                          *)
(* The run modelled is one where ffprobe, ffmpeg and python3-openshot are   *)
(* installed and the audio file is readable: args.audio is the duration     *)
(* get_audio_duration returns, args.photos_folder the image files found.    *)
(***************************************************************************)
EXTENDS Integers, Sequences, FiniteSets, TLC

(***************************************************************************)
(* Bounds of the model.                                                     *)
(***************************************************************************)
MaxFitWindow == 4
MaxFitPhotos == 3
MaxFitPhotoDur == 3
MaxFitFadeHalves == 4
\* inputs of a run of main
MaxAudio == 4
MaxIntro == 1
MaxOutro == 1
MaxPhotoDur == 2
MaxFadeHalves == 2
MaxPhotos == 3
MaxTrim == 1
\* inputs of the window computations (SpecShrink)
MaxShrinkAudio == 12
MaxShrinkIntro == 12
MaxShrinkOutro == 12
\* cap on the iterations of a schedule loop.  A loop that makes progress takes
\* at most MaxAudio iterations here: its step is the requested duration (at
\* least 1 s, in a window of at most MaxAudio s), or the window divided by the
\* number of photos (at most MaxPhotos <= MaxAudio steps).
MaxSteps == MaxAudio + 1

(***************************************************************************)
(* Exact rational arithmetic standing for Python float arithmetic.          *)
(***************************************************************************)
Abs(x) == IF x < 0 THEN -x ELSE x

RECURSIVE GCD(_, _)
GCD(a, b) == IF b = 0 THEN a ELSE GCD(b, a % b)

R(n, d) ==
    LET s == IF d < 0 THEN -1 ELSE 1
        g == GCD(Abs(n), Abs(d))
    IN  <<(s * n) \div g, (s * d) \div g>>

RInt(n) == <<n, 1>>
Zero == RInt(0)
RAdd(a, b) == R(a[1] * b[2] + b[1] * a[2], a[2] * b[2])
RSub(a, b) == R(a[1] * b[2] - b[1] * a[2], a[2] * b[2])
RMul(a, b) == R(a[1] * b[1], a[2] * b[2])
RDiv(a, b) == R(a[1] * b[2], a[2] * b[1])
RLt(a, b) == a[1] * b[2] < b[1] * a[2]
RLe(a, b) == a[1] * b[2] <= b[1] * a[2]
\* Python min(a, b): b when b < a, else a
RMin(a, b) == IF RLt(b, a) THEN b ELSE a
\* Python max(a, b): b when b > a, else a
RMax(a, b) == IF RLt(a, b) THEN b ELSE a
\* Python int(x): truncation toward zero
RTrunc(a) == IF a[1] >= 0 THEN a[1] \div a[2] ELSE -((-a[1]) \div a[2])

(***************************************************************************)
(* compute_photo_and_fade                                                   *)
(***************************************************************************)
\* variant: the fade is returned as requested, without the half-clip cap
compute_photo_and_fade_nocap(slideshow_duration, num_photos, requested_photo, requested_fade) ==
    IF num_photos <= 0
    THEN <<requested_photo, requested_fade>>
    ELSE LET max_per_photo ==
                 IF RLt(Zero, slideshow_duration)
                 THEN RDiv(slideshow_duration, RInt(num_photos))
                 ELSE requested_photo
             photo_duration ==
                 IF RLt(Zero, max_per_photo)
                 THEN RMin(requested_photo, max_per_photo)
                 ELSE requested_photo
         IN  <<photo_duration, requested_fade>>

\* variant: the fade is half of the smaller of the request and the clip
compute_photo_and_fade_halved(slideshow_duration, num_photos, requested_photo, requested_fade) ==
    LET photo_duration ==
            IF num_photos > 0 /\ RLt(Zero, slideshow_duration)
            THEN RMin(requested_photo, RDiv(slideshow_duration, RInt(num_photos)))
            ELSE requested_photo
    IN  <<photo_duration, RDiv(RMin(requested_fade, photo_duration), RInt(2))>>

\* variant: the photo duration is never shortened to fit the window
compute_photo_and_fade_nofit(slideshow_duration, num_photos, requested_photo, requested_fade) ==
    <<requested_photo, RMin(requested_fade, RDiv(requested_photo, RInt(2)))>>

compute_photo_and_fade(slideshow_duration, num_photos, requested_photo, requested_fade) ==
    IF num_photos <= 0
    THEN <<requested_photo, RMin(requested_fade, RDiv(requested_photo, RInt(2)))>>
    ELSE LET max_per_photo ==
                 IF RLt(Zero, slideshow_duration)
                 THEN RDiv(slideshow_duration, RInt(num_photos))
                 ELSE requested_photo
             photo_duration ==
                 IF RLt(Zero, max_per_photo)
                 THEN RMin(requested_photo, max_per_photo)
                 ELSE requested_photo
             \* Keep fade at most half the clip so it can fit
             fade_duration == RMin(requested_fade, RDiv(photo_duration, RInt(2)))
         IN  <<photo_duration, fade_duration>>

(***************************************************************************)
(* Program state.                                                           *)
(*   args          the parsed command line of main (and the probed audio    *)
(*                 duration / folder content the run will see)              *)
(*   pc            position of the run                                      *)
(*   error         the exception that ended the run and the function that   *)
(*                 raised it (NoError if none)                              *)
(*   cop           locals of create_openshot_project                        *)
(*   project_data  the project dictionary create_openshot_project builds    *)
(*   lo            locals of render_video_with_libopenshot                  *)
(*   rv            parameters and locals of render_video                    *)
(*   fit           an isolated call of compute_photo_and_fade (SpecFit)     *)
(*   shrink        the window computation of create_openshot_project and of *)
(*                 render_video on one request (SpecShrink)                 *)
(***************************************************************************)
VARIABLES args, pc, error, cop, project_data, lo, rv, fit, shrink

progvars == <<args, pc, error, cop, project_data, lo, rv>>
vars == <<args, pc, error, cop, project_data, lo, rv, fit, shrink>>

(***************************************************************************)
(* Program constants.                                                       *)
(***************************************************************************)
DEFAULT_TRIM_START == 0
DEFAULT_TRIM_END == 0
audio_layer == 1000000
photo_layer == 2000000
\* "Keep at least 5s" of intro and of outro when auto-adjusting
MIN_INTRO_OUTRO == 5
\* intro + outro above 80% of the audio triggers the adjustment, down to 60%
SHRINK_TRIGGER == R(8, 10)
SHRINK_TARGET == R(6, 10)
FADE_SVG == "@transitions/common/fade.svg"
\* "Small tolerance for rounding" when the video is compared with the audio
TOLERANCE == R(1, 10)
\* an audio duration that is not a whole number of seconds, as ffprobe
\* reports them
FRACTION_AUDIO == R(9, 4)
\* a requested fade below the tolerance (--fade-duration 0.05)
SMALL_FADE == R(1, 20)

(***************************************************************************)
(* get_sorted_photos: the image files of the folder sorted by name; raises  *)
(* when there is none.  File names are numbers, ordered as names are.       *)
(***************************************************************************)
RECURSIVE sorted(_)
sorted(S) ==
    IF S = {} THEN <<>>
    ELSE LET m == CHOOSE x \in S : \A y \in S : x <= y
         IN  <<m>> \o sorted(S \ {m})

get_sorted_photos(photos_folder) == sorted(photos_folder)

(***************************************************************************)
(* One iteration of a schedule loop (the loop body is the same text in      *)
(* render_video, render_video_with_libopenshot and twice in                 *)
(* create_openshot_project): the placement appended at current_time.        *)
(***************************************************************************)
\* variant: the clip is not clipped to the remaining window
Placement_noclip(photos, slideshow_start, slideshow_duration, effective_photo_duration, current_time, photo_index) ==
    [ photo |-> photos[(photo_index % Len(photos)) + 1],
      start |-> current_time,
      duration |-> effective_photo_duration,
      index |-> photo_index ]

\* variant: the photo is picked by the clipped index, never wrapping around
Placement_nowrap(photos, slideshow_start, slideshow_duration, effective_photo_duration, current_time, photo_index) ==
    LET remaining_duration == RSub(RAdd(slideshow_start, slideshow_duration), current_time)
        clip_duration == RMin(effective_photo_duration, remaining_duration)
    IN  [ photo |-> photos[IF photo_index < Len(photos) THEN photo_index + 1 ELSE Len(photos)],
          start |-> current_time,
          duration |-> clip_duration,
          index |-> photo_index ]

Placement(photos, slideshow_start, slideshow_duration, effective_photo_duration, current_time, photo_index) ==
    LET photo == photos[(photo_index % Len(photos)) + 1]
        remaining_duration == RSub(RAdd(slideshow_start, slideshow_duration), current_time)
        clip_duration == RMin(effective_photo_duration, remaining_duration)
    IN  [ photo |-> photo,
          start |-> current_time,
          duration |-> clip_duration,
          index |-> photo_index ]

\* the same loop with "<=" for "<"
LoopCondition_inclusive(f) == RLe(f.current_time, RAdd(f.slideshow_start, f.slideshow_duration))

\* while current_time < slideshow_start + slideshow_duration
LoopCondition(f) == RLt(f.current_time, RAdd(f.slideshow_start, f.slideshow_duration))

\* the same test with a slack of one second
WindowTooSmall_slack(slideshow_duration) == RLt(slideshow_duration, RInt(-1))

\* "if slideshow_duration < 0: raise ValueError(...)": a window of length 0
\* is accepted
WindowTooSmall_inclusive(slideshow_duration) == RLe(slideshow_duration, Zero)
WindowTooSmall(slideshow_duration) == RLt(slideshow_duration, Zero)

(***************************************************************************)
(* Initial state: main has parsed its arguments.                            *)
(***************************************************************************)
\* intro, outro and trim take the two ends of their range: absent, or as
\* long as the bound allows
Args ==
    [ audio : {RInt(k) : k \in 1 .. MaxAudio} \cup {FRACTION_AUDIO},
      photos_folder : {1 .. k : k \in 0 .. MaxPhotos},
      photo_duration : {RInt(k) : k \in 0 .. MaxPhotoDur},
      fade_duration : {R(k, 2) : k \in 0 .. MaxFadeHalves} \cup {SMALL_FADE},
      intro_duration : {RInt(0), RInt(MaxIntro)},
      outro_duration : {RInt(0), RInt(MaxOutro)},
      trim_start : {RInt(0), RInt(MaxTrim)},
      trim_end : {RInt(DEFAULT_TRIM_END)},
      export_video : BOOLEAN,
      save_osp : BOOLEAN,
      use_libopenshot : BOOLEAN ]

NoFrame ==
    [ audio_duration |-> Zero, intro_duration |-> Zero, outro_duration |-> Zero,
      photo_duration |-> Zero, fade_duration |-> Zero,
      slideshow_start |-> Zero, slideshow_duration |-> Zero, photos |-> <<>>,
      effective_photo_duration |-> Zero, effective_fade_duration |-> Zero,
      current_time |-> Zero, photo_index |-> 0 ]

NoCop == [ frame |-> NoFrame, clip_counter |-> 0, photo_clips |-> <<>> ]
\* writer: the FFmpegWriter of the output file ("none", "open", "closed")
NoLo == [ frame |-> NoFrame, photo_schedule |-> <<>>, writer |-> "none" ]
\* a media file of the scratch directory (or the output file) and its duration
NoFile == [ exists |-> FALSE, duration |-> Zero ]
File(duration) == [ exists |-> TRUE, duration |-> duration ]

\* temp_dir: the scratch directory exists; steps: the external invocations
\* made so far, in order, with their outcome; pending: the exception on its
\* way through the finally clause
NoRv ==
    [ frame |-> NoFrame, photo_schedule |-> <<>>, slideshow_cmd |-> "none", xfades |-> <<>>,
      temp_dir |-> FALSE, steps |-> <<>>, photo_video |-> NoFile,
      actual_duration |-> Zero, video_with_timing |-> NoFile, video_duration |-> Zero,
      output |-> NoFile, pending |-> "" ]
NoProject == [ clips |-> <<>>, effects |-> <<>>, files |-> <<>>, duration |-> 0,
               written |-> FALSE ]
NoShrink == [ audio_duration |-> Zero, intro_duration |-> Zero, outro_duration |-> Zero,
              create |-> <<>>, render |-> <<>> ]
NoFit == [ slideshow_duration |-> Zero, num_photos |-> 0, requested_photo |-> Zero,
           requested_fade |-> Zero, result |-> <<Zero, Zero>> ]

\* no exception so far
NoError == [ by |-> "", kind |-> "" ]

Init ==
    /\ args \in Args
    \* without --export-video the two rendering flags are not read
    /\ args.export_video \/ (~args.save_osp /\ ~args.use_libopenshot)
    \* the trim options are read by create_openshot_project only
    /\ (args.export_video /\ ~args.save_osp) => args.trim_start = RInt(DEFAULT_TRIM_START)
    /\ pc = "main"
    /\ error = NoError
    /\ cop = NoCop
    /\ project_data = NoProject
    /\ lo = NoLo
    /\ rv = NoRv
    /\ fit = NoFit
    /\ shrink = NoShrink

(***************************************************************************)
(* main: choose the entry point.  Any exception of an entry point reaches   *)
(* main's handler, which prints it and exits with status 1.                 *)
(***************************************************************************)
Raise(by, kind) ==
    /\ pc' = "exit_error"
    /\ error' = [ by |-> by, kind |-> kind ]

\* the call made once the project (if any) has been written
RenderEntry == IF args.use_libopenshot THEN "lo_timing" ELSE "rv_timing"

RenderParams ==
    [ NoRv EXCEPT !.frame.photo_duration = args.photo_duration,
                  !.frame.fade_duration = args.fade_duration,
                  !.frame.intro_duration = args.intro_duration,
                  !.frame.outro_duration = args.outro_duration ]

Main_Dispatch ==
    /\ pc = "main"
    /\ pc' = IF args.export_video /\ ~args.save_osp THEN RenderEntry ELSE "cop_timing"
    /\ rv' = IF args.export_video /\ ~args.save_osp /\ ~args.use_libopenshot
             THEN RenderParams ELSE rv
    /\ UNCHANGED <<args, error, cop, project_data, lo, fit, shrink>>

(***************************************************************************)
(* create_openshot_project                                                  *)
(***************************************************************************)
\* "if slideshow_duration < 0: ... if total_io > audio_duration * 0.8"
AutoShrinkApplies(audio_duration, intro_duration, outro_duration) ==
    /\ RLt(RSub(RSub(audio_duration, intro_duration), outro_duration), Zero)
    /\ RLt(RMul(audio_duration, SHRINK_TRIGGER), RAdd(intro_duration, outro_duration))

\* "Auto-adjust intro/outro if they exceed trimmed audio": the pair
\* <<intro_duration, outro_duration>> after the adjustment
AutoShrink(audio_duration, intro_duration, outro_duration) ==
    LET slideshow_duration == RSub(RSub(audio_duration, intro_duration), outro_duration)
        total_io == RAdd(intro_duration, outro_duration)
        scale == RDiv(RMul(audio_duration, SHRINK_TARGET), total_io)
    IN  IF AutoShrinkApplies(audio_duration, intro_duration, outro_duration)
        THEN << RMax(RInt(MIN_INTRO_OUTRO), RInt(RTrunc(RMul(intro_duration, scale)))),
                RMax(RInt(MIN_INTRO_OUTRO), RInt(RTrunc(RMul(outro_duration, scale)))) >>
        ELSE <<intro_duration, outro_duration>>

\* trim, window, auto-adjustment, validation, photo scan and timing
CreateProject_Timing ==
    /\ pc = "cop_timing"
    /\ LET audio_duration == RSub(RSub(args.audio, args.trim_start), args.trim_end)
           io == AutoShrink(audio_duration, args.intro_duration, args.outro_duration)
           intro_duration == io[1]
           outro_duration == io[2]
           slideshow_start == intro_duration
           slideshow_duration == RSub(RSub(audio_duration, intro_duration), outro_duration)
           photos == get_sorted_photos(args.photos_folder)
           timing == compute_photo_and_fade(slideshow_duration, Len(photos),
                                            args.photo_duration, args.fade_duration)
       IN  IF RLe(audio_duration, Zero)
           THEN Raise("create_openshot_project", "trim") /\ UNCHANGED cop
           ELSE IF WindowTooSmall(slideshow_duration)
           THEN Raise("create_openshot_project", "timing") /\ UNCHANGED cop
           ELSE IF photos = <<>>
           THEN Raise("create_openshot_project", "no_photos") /\ UNCHANGED cop
           ELSE /\ cop' = [ cop EXCEPT !.frame =
                              [ audio_duration |-> audio_duration,
                                intro_duration |-> intro_duration,
                                outro_duration |-> outro_duration,
                                photo_duration |-> args.photo_duration,
                                fade_duration |-> args.fade_duration,
                                slideshow_start |-> slideshow_start,
                                slideshow_duration |-> slideshow_duration,
                                photos |-> photos,
                                effective_photo_duration |-> timing[1],
                                effective_fade_duration |-> timing[2],
                                current_time |-> slideshow_start,
                                photo_index |-> 0 ],
                              !.clip_counter = 0 ]
                /\ pc' = "cop_count"
                /\ UNCHANGED error
    /\ UNCHANGED <<args, project_data, lo, rv, fit, shrink>>

\* one iteration of the loop that counts the clips ("Creating photo timeline")
CreateProject_CountStep ==
    /\ pc = "cop_count"
    /\ LoopCondition(cop.frame)
    /\ cop.frame.photo_index < MaxSteps
    /\ LET f == cop.frame
           item == Placement(f.photos, f.slideshow_start, f.slideshow_duration,
                             f.effective_photo_duration, f.current_time, f.photo_index)
       IN  cop' = [ cop EXCEPT !.frame.current_time = RAdd(f.current_time, item.duration),
                               !.clip_counter = @ + 1,
                               !.frame.photo_index = @ + 1 ]
    /\ UNCHANGED <<args, pc, error, project_data, lo, rv, fit, shrink>>

\* the project skeleton, the audio file and the audio clip
AudioFileData == [ id |-> 4, path |-> "audio", media_type |-> "audio" ]

AudioClipData(f) ==
    [ id |-> 5, file_id |-> AudioFileData.id, layer |-> audio_layer,
      position |-> Zero, start |-> args.trim_start,
      end |-> RAdd(args.trim_start, f.audio_duration),
      duration |-> f.audio_duration ]

CreateProject_AddAudio ==
    /\ pc = "cop_count"
    /\ ~LoopCondition(cop.frame)
    /\ project_data' = [ clips |-> <<AudioClipData(cop.frame)>>,
                         effects |-> <<>>,
                         files |-> <<AudioFileData>>,
                         duration |-> RTrunc(cop.frame.audio_duration),
                         written |-> FALSE ]
    /\ cop' = [ cop EXCEPT !.photo_clips = <<>>,
                           !.frame.current_time = cop.frame.slideshow_start,
                           !.frame.photo_index = 0 ]
    /\ pc' = "cop_schedule"
    /\ UNCHANGED <<args, error, lo, rv, fit, shrink>>

\* one iteration of "Calculate photo schedule with overlaps for crossfades"
CreateProject_ScheduleStep ==
    /\ pc = "cop_schedule"
    /\ LoopCondition(cop.frame)
    /\ cop.frame.photo_index < MaxSteps
    /\ LET f == cop.frame
           item == Placement(f.photos, f.slideshow_start, f.slideshow_duration,
                             f.effective_photo_duration, f.current_time, f.photo_index)
       IN  cop' = [ cop EXCEPT !.photo_clips =
                                   Append(@, [ photo |-> item.photo,
                                               position |-> item.start,
                                               duration |-> item.duration,
                                               index |-> item.index ]),
                               !.frame.current_time = RAdd(f.current_time, item.duration),
                               !.frame.photo_index = @ + 1 ]
    /\ UNCHANGED <<args, pc, error, project_data, lo, rv, fit, shrink>>

\* ids are uuid4 values: the k-th call of uuid4 is k (1 the project, 2 and 3
\* the layers, 4 the audio file, 5 the audio clip, then a file and a clip per
\* photo clip, then the transitions)
\* variant: one id for the file entries of all photo clips
PhotoFileId_reused(idx) == 6
PhotoFileId(idx) == 6 + 2 * idx
PhotoClipId(idx) == 7 + 2 * idx
TransitionId(n, idx) == 6 + 2 * n + idx

PhotoFileData(photo_clips, idx) ==
    [ id |-> PhotoFileId(idx), path |-> photo_clips[idx + 1].photo, media_type |-> "image" ]

\* variant: the last clip is extended like the others
PhotoClipData_extendall(photo_clips, effective_fade_duration, idx) ==
    [ id |-> PhotoClipId(idx), file_id |-> PhotoFileId(idx), layer |-> photo_layer,
      position |-> photo_clips[idx + 1].position, start |-> Zero,
      end |-> RAdd(photo_clips[idx + 1].duration, effective_fade_duration),
      duration |-> RAdd(photo_clips[idx + 1].duration, effective_fade_duration) ]

\* "Extend clip duration to include crossfade with next clip"
PhotoClipData(photo_clips, effective_fade_duration, idx) ==
    LET item == photo_clips[idx + 1]
        clip_duration == IF idx < Len(photo_clips) - 1
                         THEN RAdd(item.duration, effective_fade_duration)
                         ELSE item.duration
    IN  [ id |-> PhotoClipId(idx), file_id |-> PhotoFileId(idx), layer |-> photo_layer,
          position |-> item.position, start |-> Zero,
          end |-> clip_duration, duration |-> clip_duration ]

\* variant: the transition is placed where the current clip starts
TransitionData_atcurrent(photo_clips, effective_fade_duration, idx) ==
    [ id |-> TransitionId(Len(photo_clips), idx), layer |-> photo_layer,
      position |-> photo_clips[idx + 1].position, start |-> Zero,
      end |-> effective_fade_duration, duration |-> effective_fade_duration,
      type |-> "Mask", reader_path |-> FADE_SVG ]

\* "Add fade transitions between consecutive photos"
TransitionData(photo_clips, effective_fade_duration, idx) ==
    LET transition_position == photo_clips[idx + 2].position
    IN  [ id |-> TransitionId(Len(photo_clips), idx), layer |-> photo_layer,
          position |-> transition_position, start |-> Zero,
          end |-> effective_fade_duration, duration |-> effective_fade_duration,
          type |-> "Mask", reader_path |-> FADE_SVG ]

\* range(len(clip_objects) - 1), as 0-based indices
TransitionRange(photo_clips) == 0 .. (Len(photo_clips) - 2)

TransitionCount(photo_clips) == Cardinality(TransitionRange(photo_clips))

\* files, clips and transitions of the photos, then the file is written
CreateProject_Emit ==
    /\ pc = "cop_schedule"
    /\ ~LoopCondition(cop.frame)
    /\ LET pcs == cop.photo_clips
           n == Len(pcs)
           fade == cop.frame.effective_fade_duration
       IN  project_data' =
             [ project_data EXCEPT
                 !.files = @ \o [k \in 1 .. n |-> PhotoFileData(pcs, k - 1)],
                 !.clips = @ \o [k \in 1 .. n |-> PhotoClipData(pcs, fade, k - 1)],
                 !.effects = [k \in 1 .. TransitionCount(pcs) |->
                                 TransitionData(pcs, fade, k - 1)],
                 !.written = TRUE ]
    /\ pc' = "cop_done"
    /\ UNCHANGED <<args, error, cop, lo, rv, fit, shrink>>

\* back in main: render next (--export-video --save-osp) or finish
CreateProject_Return ==
    /\ pc = "cop_done"
    /\ pc' = IF args.export_video THEN RenderEntry ELSE "exit_ok"
    /\ rv' = IF args.export_video /\ ~args.use_libopenshot THEN RenderParams ELSE rv
    /\ UNCHANGED <<args, error, cop, project_data, lo, fit, shrink>>

(***************************************************************************)
(* render_video_with_libopenshot                                            *)
(***************************************************************************)
\* variant: the renderers schedule from 0, whatever the intro
RenderFrame_nostart(photo_duration, fade_duration, intro_duration, outro_duration) ==
    LET audio_duration == args.audio
        slideshow_start == Zero
        slideshow_duration == RSub(RSub(audio_duration, intro_duration), outro_duration)
        photos == get_sorted_photos(args.photos_folder)
        timing == compute_photo_and_fade(slideshow_duration, Len(photos),
                                         photo_duration, fade_duration)
    IN  [ audio_duration |-> audio_duration,
          intro_duration |-> intro_duration,
          outro_duration |-> outro_duration,
          photo_duration |-> photo_duration,
          fade_duration |-> fade_duration,
          slideshow_start |-> slideshow_start,
          slideshow_duration |-> slideshow_duration,
          photos |-> photos,
          effective_photo_duration |-> timing[1],
          effective_fade_duration |-> timing[2],
          current_time |-> slideshow_start,
          photo_index |-> 0 ]

\* window, validation, photo scan and timing, shared shape of both renderers
RenderFrame(photo_duration, fade_duration, intro_duration, outro_duration) ==
    LET audio_duration == args.audio
        slideshow_start == intro_duration
        slideshow_duration == RSub(RSub(audio_duration, intro_duration), outro_duration)
        photos == get_sorted_photos(args.photos_folder)
        timing == compute_photo_and_fade(slideshow_duration, Len(photos),
                                         photo_duration, fade_duration)
    IN  [ audio_duration |-> audio_duration,
          intro_duration |-> intro_duration,
          outro_duration |-> outro_duration,
          photo_duration |-> photo_duration,
          fade_duration |-> fade_duration,
          slideshow_start |-> slideshow_start,
          slideshow_duration |-> slideshow_duration,
          photos |-> photos,
          effective_photo_duration |-> timing[1],
          effective_fade_duration |-> timing[2],
          current_time |-> slideshow_start,
          photo_index |-> 0 ]

Libopenshot_Timing ==
    /\ pc = "lo_timing"
    /\ LET f == RenderFrame(args.photo_duration, args.fade_duration,
                            args.intro_duration, args.outro_duration)
       IN  IF WindowTooSmall(f.slideshow_duration)
           THEN Raise("render_video_with_libopenshot", "timing") /\ UNCHANGED lo
           ELSE IF f.photos = <<>>
           THEN Raise("render_video_with_libopenshot", "no_photos") /\ UNCHANGED lo
           ELSE /\ lo' = [ lo EXCEPT !.frame = f, !.photo_schedule = <<>> ]
                /\ pc' = "lo_schedule"
                /\ UNCHANGED error
    /\ UNCHANGED <<args, cop, project_data, rv, fit, shrink>>

\* one iteration of "Calculate photo schedule with crossfade overlaps"
Libopenshot_ScheduleStep ==
    /\ pc = "lo_schedule"
    /\ LoopCondition(lo.frame)
    /\ lo.frame.photo_index < MaxSteps
    /\ LET f == lo.frame
           item == Placement(f.photos, f.slideshow_start, f.slideshow_duration,
                             f.effective_photo_duration, f.current_time, f.photo_index)
       IN  lo' = [ lo EXCEPT !.photo_schedule =
                                 Append(@, [ file |-> item.photo,
                                             start |-> item.start,
                                             duration |-> item.duration ]),
                             !.frame.current_time = RAdd(f.current_time, item.duration),
                             !.frame.photo_index = @ + 1 ]
    /\ UNCHANGED <<args, pc, error, cop, project_data, rv, fit, shrink>>

\* the timeline is built and every frame is rendered and written
Libopenshot_Render ==
    /\ pc = "lo_schedule"
    /\ ~LoopCondition(lo.frame)
    /\ lo' = [ lo EXCEPT !.writer = "closed" ]
    /\ pc' = "exit_ok"
    /\ UNCHANGED <<args, error, cop, project_data, rv, fit, shrink>>

\* rendering a frame raised: "Falling back to direct FFmpeg rendering" with
\* the already adjusted photo and fade durations
Libopenshot_Fallback ==
    /\ pc = "lo_schedule"
    /\ ~LoopCondition(lo.frame)
    /\ rv' = [ NoRv EXCEPT !.frame.photo_duration = lo.frame.effective_photo_duration,
                           !.frame.fade_duration = lo.frame.effective_fade_duration,
                           !.frame.intro_duration = lo.frame.intro_duration,
                           !.frame.outro_duration = lo.frame.outro_duration ]
    /\ lo' = [ lo EXCEPT !.writer = "closed" ]
    /\ pc' = "rv_timing"
    /\ UNCHANGED <<args, error, cop, project_data, fit, shrink>>

(***************************************************************************)
(* render_video                                                             *)
(***************************************************************************)
\* the same entry with the scratch directory made ahead of the validation
RenderVideo_Timing_tempfirst ==
    /\ pc = "rv_timing"
    /\ LET f == RenderFrame(rv.frame.photo_duration, rv.frame.fade_duration,
                            rv.frame.intro_duration, rv.frame.outro_duration)
       IN  IF WindowTooSmall(f.slideshow_duration)
           THEN Raise("render_video", "timing") /\ rv' = [ rv EXCEPT !.temp_dir = TRUE ]
           ELSE IF f.photos = <<>>
           THEN Raise("render_video", "no_photos") /\ rv' = [ rv EXCEPT !.temp_dir = TRUE ]
           ELSE /\ rv' = [ rv EXCEPT !.frame = f, !.photo_schedule = <<>> ]
                /\ pc' = "rv_schedule"
                /\ UNCHANGED error
    /\ UNCHANGED <<args, cop, project_data, lo, fit, shrink>>

RenderVideo_Timing ==
    /\ pc = "rv_timing"
    /\ LET f == RenderFrame(rv.frame.photo_duration, rv.frame.fade_duration,
                            rv.frame.intro_duration, rv.frame.outro_duration)
       IN  IF WindowTooSmall(f.slideshow_duration)
           THEN Raise("render_video", "timing") /\ UNCHANGED rv
           ELSE IF f.photos = <<>>
           THEN Raise("render_video", "no_photos") /\ UNCHANGED rv
           ELSE /\ rv' = [ rv EXCEPT !.frame = f, !.photo_schedule = <<>> ]
                /\ pc' = "rv_schedule"
                /\ UNCHANGED error
    /\ UNCHANGED <<args, cop, project_data, lo, fit, shrink>>

\* one iteration of "Calculate how many times each photo appears"
RenderVideo_ScheduleStep ==
    /\ pc = "rv_schedule"
    /\ LoopCondition(rv.frame)
    /\ rv.frame.photo_index < MaxSteps
    /\ LET f == rv.frame
           item == Placement(f.photos, f.slideshow_start, f.slideshow_duration,
                             f.effective_photo_duration, f.current_time, f.photo_index)
       IN  rv' = [ rv EXCEPT !.photo_schedule =
                                 Append(@, [ file |-> item.photo,
                                             start |-> item.start,
                                             duration |-> item.duration ]),
                             !.frame.current_time = RAdd(f.current_time, item.duration),
                             !.frame.photo_index = @ + 1 ]
    /\ UNCHANGED <<args, pc, error, cop, project_data, lo, fit, shrink>>

\* "Create temporary directory for intermediate files", then "Detect best
\* encoder", both ahead of the try statement.  detect_best_encoder catches
\* TimeoutExpired and FileNotFoundError only: any other exception of its
\* subprocess.run calls leaves render_video at once.  (With --test-run the
\* detection is skipped, which is the branch that does not raise.)
RenderVideo_MakeTempDir ==
    /\ pc = "rv_schedule"
    /\ ~LoopCondition(rv.frame)
    /\ rv' = [ rv EXCEPT !.temp_dir = TRUE ]
    /\ \E raised \in BOOLEAN :
          IF raised THEN Raise("render_video", "encoder")
          ELSE pc' = "rv_build" /\ UNCHANGED error
    /\ UNCHANGED <<args, cop, project_data, lo, fit, shrink>>

\* cumulative_offset after the xfade of input i (1 <= i < len(photo_schedule)):
\* "previous clip duration(s) minus all the fade overlaps so far"
RECURSIVE cumulative_offset(_, _, _)
cumulative_offset(photo_schedule, effective_fade_duration, i) ==
    IF i = 0 THEN Zero
    ELSE RAdd(cumulative_offset(photo_schedule, effective_fade_duration, i - 1),
              RSub(photo_schedule[i].duration, effective_fade_duration))

\* the xfade filter of input i: [current_label][v{i}]xfade=...[next_label]
XfadeStep(photo_schedule, effective_fade_duration, i) ==
    [ inputs |-> << IF i = 1 THEN <<"v", 0>> ELSE <<"vx", i - 1>>, <<"v", i>> >>,
      duration |-> effective_fade_duration,
      offset |-> cumulative_offset(photo_schedule, effective_fade_duration, i),
      output |-> IF i < Len(photo_schedule) - 1 THEN <<"vx", i>> ELSE <<"out", 0>> ]

\* the slideshow command: one looped image, or the xfade chain
RenderVideo_BuildSlideshow ==
    /\ pc = "rv_build"
    /\ LET ps == rv.photo_schedule
           fade == rv.frame.effective_fade_duration
       IN  rv' = [ rv EXCEPT
                     !.slideshow_cmd = IF Len(ps) = 1 THEN "single" ELSE "xfade",
                     !.xfades = IF Len(ps) = 1 THEN <<>>
                                ELSE [i \in 1 .. (Len(ps) - 1) |-> XfadeStep(ps, fade, i)] ]
    /\ pc' = "rv_slideshow"
    /\ UNCHANGED <<args, error, cop, project_data, lo, fit, shrink>>

\* total_photo_duration = sum(p['duration'] for p in photo_schedule)
RECURSIVE total_photo_duration(_)
total_photo_duration(photo_schedule) ==
    IF photo_schedule = <<>> THEN Zero
    ELSE RAdd(photo_schedule[1].duration, total_photo_duration(Tail(photo_schedule)))

\* what the slideshow command yields: the looped image for its "-t", or the
\* xfade chain, whose output ends where the last input ends, that is at the
\* last offset plus the last duration
slideshow_length(photo_schedule, effective_fade_duration) ==
    IF Len(photo_schedule) = 1 THEN photo_schedule[1].duration
    ELSE RSub(total_photo_duration(photo_schedule),
              RMul(RInt(Len(photo_schedule) - 1), effective_fade_duration))

\* the command maps a stream that exists: the single image, or the [out] label
\* that the last xfade of the chain defines
SlideshowCmdWellFormed ==
    \/ rv.slideshow_cmd = "single"
    \/ rv.slideshow_cmd = "xfade" /\ rv.xfades # <<>>

\* an exception inside the try statement: the finally clause runs first
RaiseInTry(kind) ==
    /\ pc' = "rv_finally"
    /\ UNCHANGED error

Step(name, ok) == [ name |-> name, ok |-> ok ]

\* run_ffmpeg_with_progress(cmd, total_photo_duration, "Rendering photos"):
\* a non-zero return code raises RuntimeError
RenderVideo_RunSlideshow ==
    /\ pc = "rv_slideshow"
    /\ \E ok \in BOOLEAN :
          /\ ok => SlideshowCmdWellFormed
          /\ IF ok
             THEN /\ rv' = [ rv EXCEPT
                              !.steps = Append(@, Step("slideshow", TRUE)),
                              !.photo_video =
                                  File(slideshow_length(rv.photo_schedule,
                                                        rv.frame.effective_fade_duration)) ]
                  /\ pc' = "rv_probe_photos"
                  /\ UNCHANGED error
             ELSE /\ rv' = [ rv EXCEPT !.steps = Append(@, Step("slideshow", FALSE)),
                                       !.pending = "ffmpeg" ]
                  /\ RaiseInTry("ffmpeg")
    /\ UNCHANGED <<args, cop, project_data, lo, fit, shrink>>

\* "Verify created video duration": the return code of ffprobe is only used
\* to choose between the reported duration and 0
RenderVideo_ProbePhotos ==
    /\ pc = "rv_probe_photos"
    /\ \E ok \in BOOLEAN :
          rv' = [ rv EXCEPT
                    !.steps = Append(@, Step("probe_photos", ok)),
                    !.actual_duration = IF ok THEN rv.photo_video.duration ELSE Zero ]
    /\ pc' = "rv_intro_outro"
    /\ UNCHANGED <<args, error, cop, project_data, lo, fit, shrink>>

\* "Step 2: Add silence periods if needed (intro/outro)": the fillers are
\* concatenated around the slideshow
RenderVideo_AddIntroOutro ==
    /\ pc = "rv_intro_outro"
    /\ LET f == rv.frame
       IN  IF RLt(Zero, f.intro_duration) \/ RLt(Zero, f.outro_duration)
           THEN \E ok \in BOOLEAN :
                  IF ok
                  THEN /\ rv' = [ rv EXCEPT
                                   !.steps = Append(@, Step("intro_outro", TRUE)),
                                   !.video_with_timing =
                                       File(RAdd(RAdd(f.intro_duration, rv.photo_video.duration),
                                                 f.outro_duration)) ]
                       /\ pc' = "rv_probe_video"
                       /\ UNCHANGED error
                  ELSE /\ rv' = [ rv EXCEPT !.steps = Append(@, Step("intro_outro", FALSE)),
                                            !.pending = "ffmpeg" ]
                       /\ RaiseInTry("ffmpeg")
           ELSE /\ rv' = [ rv EXCEPT !.video_with_timing = rv.photo_video ]
                /\ pc' = "rv_probe_video"
                /\ UNCHANGED error
    /\ UNCHANGED <<args, cop, project_data, lo, fit, shrink>>

\* "First verify intermediate video duration"
RenderVideo_ProbeVideo ==
    /\ pc = "rv_probe_video"
    /\ \E ok \in BOOLEAN :
          rv' = [ rv EXCEPT
                    !.steps = Append(@, Step("probe_video", ok)),
                    !.video_duration = IF ok THEN rv.video_with_timing.duration ELSE Zero ]
    /\ pc' = "rv_extend"
    /\ UNCHANGED <<args, error, cop, project_data, lo, fit, shrink>>

\* is the video more than the tolerance shorter than the audio?
NeedsExtension(video_duration, audio_duration) ==
    RLt(video_duration, RSub(audio_duration, TOLERANCE))

\* "If video is shorter than audio, loop it": audio_duration / video_duration
\* raises ZeroDivisionError for a duration of 0; the concat command is run
\* with subprocess.run and its return code is not looked at; the loops are
\* cut with "-t audio_duration"
RenderVideo_Extend ==
    /\ pc = "rv_extend"
    /\ LET f == rv.frame
       IN  IF NeedsExtension(rv.video_duration, f.audio_duration)
           THEN IF rv.video_duration = Zero
                THEN /\ rv' = [ rv EXCEPT !.pending = "zero_division" ]
                     /\ RaiseInTry("zero_division")
                ELSE /\ \E ok \in BOOLEAN :
                          rv' = [ rv EXCEPT
                                    !.steps = Append(@, Step("extend", ok)),
                                    !.video_with_timing =
                                        IF ok
                                        THEN File(RMin(RMul(RInt(RTrunc(RDiv(f.audio_duration,
                                                                             rv.video_duration)) + 1),
                                                            rv.video_duration),
                                                       f.audio_duration))
                                        ELSE NoFile ]
                     /\ pc' = "rv_mux"
                     /\ UNCHANGED error
           ELSE /\ pc' = "rv_mux"
                /\ UNCHANGED <<rv, error>>
    /\ UNCHANGED <<args, cop, project_data, lo, fit, shrink>>

\* run_ffmpeg_with_progress(cmd, audio_duration, "Merging audio"): "-shortest"
\* ends the output with the shorter of the video and the audio
RenderVideo_Mux ==
    /\ pc = "rv_mux"
    /\ \E ok \in BOOLEAN :
          /\ ok => rv.video_with_timing.exists
          /\ rv' = [ rv EXCEPT
                       !.steps = Append(@, Step("mux", ok)),
                       !.output = IF ok
                                  THEN File(RMin(rv.video_with_timing.duration,
                                                 rv.frame.audio_duration))
                                  ELSE NoFile,
                       !.pending = IF ok THEN "" ELSE "ffmpeg" ]
    /\ pc' = "rv_finally"
    /\ UNCHANGED <<args, error, cop, project_data, lo, fit, shrink>>

\* finally: shutil.rmtree(temp_dir, ignore_errors=True), then the return or
\* the exception on its way to main
RenderVideo_Cleanup ==
    /\ pc = "rv_finally"
    /\ rv' = [ rv EXCEPT !.temp_dir = FALSE ]
    /\ IF rv.pending = ""
       THEN pc' = "exit_ok" /\ UNCHANGED error
       ELSE Raise("render_video", rv.pending)
    /\ UNCHANGED <<args, cop, project_data, lo, fit, shrink>>

Next ==
    \/ Main_Dispatch
    \/ CreateProject_Timing
    \/ CreateProject_CountStep
    \/ CreateProject_AddAudio
    \/ CreateProject_ScheduleStep
    \/ CreateProject_Emit
    \/ CreateProject_Return
    \/ Libopenshot_Timing
    \/ Libopenshot_ScheduleStep
    \/ Libopenshot_Render
    \/ Libopenshot_Fallback
    \/ RenderVideo_Timing
    \/ RenderVideo_ScheduleStep
    \/ RenderVideo_MakeTempDir
    \/ RenderVideo_BuildSlideshow
    \/ RenderVideo_RunSlideshow
    \/ RenderVideo_ProbePhotos
    \/ RenderVideo_AddIntroOutro
    \/ RenderVideo_ProbeVideo
    \/ RenderVideo_Extend
    \/ RenderVideo_Mux
    \/ RenderVideo_Cleanup

Spec == Init /\ [][Next]_vars

(***************************************************************************)
(* SpecFit: compute_photo_and_fade applied to every input of a bounded      *)
(* domain, including num_photos <= 0 and slideshow_duration <= 0.           *)
(***************************************************************************)
NoResult == <<>>

FitInputs ==
    [ slideshow_duration : {R(k, 2) : k \in -2 .. 2 * MaxFitWindow},
      num_photos : -1 .. MaxFitPhotos,
      requested_photo : {RInt(k) : k \in 0 .. MaxFitPhotoDur},
      requested_fade : {R(k, 2) : k \in 0 .. MaxFitFadeHalves},
      result : {NoResult} ]

FitInit ==
    /\ fit \in FitInputs
    /\ args = CHOOSE a \in Args : TRUE
    /\ pc = "idle"
    /\ error = NoError
    /\ cop = NoCop
    /\ project_data = NoProject
    /\ lo = NoLo
    /\ rv = NoRv
    /\ shrink = NoShrink

FitApply ==
    /\ fit.result = NoResult
    /\ fit' = [fit EXCEPT !.result =
                  compute_photo_and_fade(fit.slideshow_duration, fit.num_photos,
                                         fit.requested_photo, fit.requested_fade)]
    /\ UNCHANGED <<progvars, shrink>>

FitNext == FitApply

SpecFit == FitInit /\ [][FitNext]_vars

FitDone == fit.result # NoResult

(***************************************************************************)
(* SpecShrink: the window computations of create_openshot_project (with     *)
(* its auto-adjustment) and of render_video, applied to the same trimmed    *)
(* audio duration, intro and outro, for audio long enough for the 5 s floor *)
(* of the adjustment to fit.                                                *)
(***************************************************************************)
\* create_openshot_project, "Calculate timeline" up to the timing error
CreateProject_Window(audio_duration, intro_duration, outro_duration) ==
    LET io == AutoShrink(audio_duration, intro_duration, outro_duration)
        slideshow_duration == RSub(RSub(audio_duration, io[1]), io[2])
    IN  [ applied |-> AutoShrinkApplies(audio_duration, intro_duration, outro_duration),
          intro_duration |-> io[1],
          outro_duration |-> io[2],
          slideshow_start |-> io[1],
          slideshow_duration |-> slideshow_duration,
          error |-> IF WindowTooSmall(slideshow_duration) THEN "timing" ELSE "" ]

\* render_video, "Calculate timeline" up to the timing error
RenderVideo_Window(audio_duration, intro_duration, outro_duration) ==
    LET slideshow_duration == RSub(RSub(audio_duration, intro_duration), outro_duration)
    IN  [ applied |-> FALSE,
          intro_duration |-> intro_duration,
          outro_duration |-> outro_duration,
          slideshow_start |-> intro_duration,
          slideshow_duration |-> slideshow_duration,
          error |-> IF WindowTooSmall(slideshow_duration) THEN "timing" ELSE "" ]

ShrinkInputs ==
    [ audio_duration : {R(k, 2) : k \in 1 .. 2 * MaxShrinkAudio},
      intro_duration : {RInt(k) : k \in 0 .. MaxShrinkIntro},
      outro_duration : {RInt(k) : k \in 0 .. MaxShrinkOutro},
      create : {NoResult},
      render : {NoResult} ]

ShrinkInit ==
    /\ shrink \in ShrinkInputs
    /\ args = CHOOSE a \in Args : TRUE
    /\ pc = "idle"
    /\ error = NoError
    /\ cop = NoCop
    /\ project_data = NoProject
    /\ lo = NoLo
    /\ rv = NoRv
    /\ fit = NoFit

ShrinkCreate ==
    /\ shrink.create = NoResult
    /\ shrink' = [ shrink EXCEPT !.create =
                     CreateProject_Window(shrink.audio_duration, shrink.intro_duration,
                                          shrink.outro_duration) ]
    /\ UNCHANGED <<progvars, fit>>

ShrinkRender ==
    /\ shrink.render = NoResult
    /\ shrink' = [ shrink EXCEPT !.render =
                     RenderVideo_Window(shrink.audio_duration, shrink.intro_duration,
                                        shrink.outro_duration) ]
    /\ UNCHANGED <<progvars, fit>>

ShrinkNext == ShrinkCreate \/ ShrinkRender

SpecShrink == ShrinkInit /\ [][ShrinkNext]_vars

ShrinkCreateDone == shrink.create # NoResult
ShrinkRenderDone == shrink.render # NoResult

\* C1: for every input of compute_photo_and_fade the returned fade_duration is
\* at most half of the returned photo_duration.
C1_FadeAtMostHalfPhoto ==
    FitDone => RLe(fit.result[2], RDiv(fit.result[1], RInt(2)))

\* a call with no photos (num_photos <= 0) whose requested fade had to be cut
C1_Witness ==
    /\ FitDone
    /\ fit.num_photos <= 0
    /\ RLt(fit.result[2], fit.requested_fade)

\* The reference fit_timing contract of the specification.
fit_timing(window_length, photo_count, requested_photo_duration, requested_transition_duration) ==
    LET photo_duration ==
            IF photo_count <= 0 THEN requested_photo_duration
            ELSE IF RLt(Zero, window_length)
                 THEN RMin(requested_photo_duration, RDiv(window_length, RInt(photo_count)))
                 ELSE requested_photo_duration
    IN  <<photo_duration, RMin(requested_transition_duration, RDiv(photo_duration, RInt(2)))>>

\* C2: compute_photo_and_fade equals the reference fit_timing operator on
\* every input.
C2_EqualsFitTiming ==
    FitDone => fit.result = fit_timing(fit.slideshow_duration, fit.num_photos,
                                       fit.requested_photo, fit.requested_fade)

\* a call where the photo duration was shortened to slideshow_duration / num_photos
C2_Witness ==
    /\ FitDone
    /\ fit.num_photos > 1
    /\ RLt(Zero, fit.slideshow_duration)
    /\ RLt(fit.result[1], fit.requested_photo)
    /\ RLt(fit.result[2], fit.requested_fade)

(***************************************************************************)
(* The schedules of a run, in one shape.                                    *)
(***************************************************************************)
CopPlacements ==
    [i \in 1 .. Len(cop.photo_clips) |->
        [ photo |-> cop.photo_clips[i].photo, start |-> cop.photo_clips[i].position,
          duration |-> cop.photo_clips[i].duration ]]
LoPlacements ==
    [i \in 1 .. Len(lo.photo_schedule) |->
        [ photo |-> lo.photo_schedule[i].file, start |-> lo.photo_schedule[i].start,
          duration |-> lo.photo_schedule[i].duration ]]
RvPlacements ==
    [i \in 1 .. Len(rv.photo_schedule) |->
        [ photo |-> rv.photo_schedule[i].file, start |-> rv.photo_schedule[i].start,
          duration |-> rv.photo_schedule[i].duration ]]

\* the schedule loop of the function has been left
CopScheduled == project_data.written
LoScheduled == lo.frame.photos # <<>> /\ ~LoopCondition(lo.frame)
RvScheduled == rv.frame.photos # <<>> /\ ~LoopCondition(rv.frame)

ScheduleRuns ==
    { [ frame |-> cop.frame, placements |-> CopPlacements, done |-> CopScheduled ],
      [ frame |-> lo.frame, placements |-> LoPlacements, done |-> LoScheduled ],
      [ frame |-> rv.frame, placements |-> RvPlacements, done |-> RvScheduled ] }

\* the cap MaxSteps never stops a loop that makes progress
LoopCapUnreached ==
    \A f \in {cop.frame, lo.frame, rv.frame} :
        ( RLt(Zero, f.effective_photo_duration) /\ LoopCondition(f) )
        => f.photo_index < MaxSteps - 1

RECURSIVE SumDurations(_)
SumDurations(placements) ==
    IF placements = <<>> THEN Zero
    ELSE RAdd(placements[1].duration, SumDurations(Tail(placements)))

WindowEnd(f) == RAdd(f.slideshow_start, f.slideshow_duration)

Abutting(f, p) ==
    /\ p # <<>>
    /\ p[1].start = f.slideshow_start
    /\ \A i \in 1 .. (Len(p) - 1) : p[i + 1].start = RAdd(p[i].start, p[i].duration)
    /\ RAdd(p[Len(p)].start, p[Len(p)].duration) = WindowEnd(f)
    /\ SumDurations(p) = f.slideshow_duration

\* C3: Coverage: for slideshow_duration > 0, at least one photo and an
\* effective photo duration > 0, the placements of a finished schedule loop
\* abut exactly from slideshow_start, the last one ends exactly at
\* slideshow_start + slideshow_duration and the durations sum to
\* slideshow_duration; when the photo duration was cut to
\* slideshow_duration / num_photos (as for 600/180/60, 5 photos, requested 120:
\* 72 s) there are exactly num_photos placements of that length.
C3_Coverage ==
    /\ compute_photo_and_fade(RInt(360), 5, RInt(120), RInt(2)) = <<RInt(72), RInt(2)>>
    /\ \A r \in ScheduleRuns :
         ( /\ r.done
           /\ RLt(Zero, r.frame.slideshow_duration)
           /\ RLt(Zero, r.frame.effective_photo_duration) )
         => /\ Abutting(r.frame, r.placements)
            /\ ( r.frame.effective_photo_duration =
                   RDiv(r.frame.slideshow_duration, RInt(Len(r.frame.photos)))
                 => /\ Len(r.placements) = Len(r.frame.photos)
                    /\ \A i \in 1 .. Len(r.placements) :
                         r.placements[i].duration = r.frame.effective_photo_duration )

\* a finished schedule of several placements whose last one was clipped to the
\* remaining window
C3_Witness ==
    \E r \in ScheduleRuns :
        /\ r.done
        /\ Len(r.placements) >= 2
        /\ RLt(Zero, r.frame.slideshow_start)
        /\ RLt(r.placements[Len(r.placements)].duration, r.frame.effective_photo_duration)

\* C4: Round-robin: the i-th placement (from 0) of every schedule shows
\* photos[i mod len(photos)] of the name-sorted photo list.
C4_RoundRobin ==
    \A r \in ScheduleRuns :
        \A i \in 1 .. Len(r.placements) :
            /\ r.placements[i].photo = r.frame.photos[((i - 1) % Len(r.frame.photos)) + 1]
            /\ r.frame.photos = sorted(args.photos_folder)

\* a finished schedule that went through a list of several photos more than once
C4_Witness ==
    \E r \in ScheduleRuns :
        /\ r.done
        /\ Len(r.frame.photos) >= 2
        /\ Len(r.placements) > Len(r.frame.photos)

\* C5: Monotonicity: in every schedule the start positions are strictly
\* increasing and every placement duration is strictly positive.
C5_StrictlyMonotonic ==
    \A r \in ScheduleRuns :
        /\ \A i \in 1 .. (Len(r.placements) - 1) :
               RLt(r.placements[i].start, r.placements[i + 1].start)
        /\ \A i \in 1 .. Len(r.placements) : RLt(Zero, r.placements[i].duration)

\* C6: for the same schedule, the position of every transition descriptor of
\* the project, relative to slideshow_start, equals the xfade offset
\* render_video computes for the same pair, and both have the same duration.
C6_ModesAgree ==
    ( /\ project_data.written
      /\ rv.slideshow_cmd = "xfade"
      /\ CopPlacements = RvPlacements
      /\ cop.frame.slideshow_start = rv.frame.slideshow_start )
    => /\ Len(project_data.effects) = Len(rv.xfades)
       /\ \A i \in 1 .. Len(rv.xfades) :
            /\ RSub(project_data.effects[i].position, cop.frame.slideshow_start)
                 = rv.xfades[i].offset
            /\ project_data.effects[i].duration = rv.xfades[i].duration

\* C7: the project has one transition descriptor less than photo placements,
\* and none when the folder holds exactly one photo.
C7_TransitionCount ==
    project_data.written
    => /\ Len(cop.photo_clips) >= 1
            => Len(project_data.effects) = Len(cop.photo_clips) - 1
       /\ Len(cop.frame.photos) = 1 => Len(project_data.effects) = 0

\* C8: the k-th transition descriptor (from 0) is positioned at the start of
\* placement k+1 and its start/end/duration span the effective transition
\* duration returned by compute_photo_and_fade.
C8_TransitionPlacement ==
    project_data.written
    => \A k \in 1 .. Len(project_data.effects) :
         LET t == project_data.effects[k]
             fade == compute_photo_and_fade(cop.frame.slideshow_duration,
                                            Len(cop.frame.photos),
                                            args.photo_duration, args.fade_duration)[2]
         IN  /\ k + 1 <= Len(cop.photo_clips)
             /\ t.position = cop.photo_clips[k + 1].position
             /\ t.position = project_data.clips[k + 2].position
             /\ t.start = Zero
             /\ t.end = fade
             /\ t.duration = fade

\* a written project with at least two transitions of positive duration
C8_Witness ==
    /\ project_data.written
    /\ Len(project_data.effects) >= 2
    /\ RLt(Zero, project_data.effects[1].duration)
    /\ RLt(project_data.effects[1].duration, args.fade_duration)

\* the photo clips of the project (the audio clip comes first)
ProjectPhotoClips == Tail(project_data.clips)

\* C9: every photo clip but the last has its declared duration extended by the
\* effective transition duration and the last one has not, so consecutive
\* clips overlap by exactly the transition duration.
C9_OverlapLayout ==
    project_data.written
    => LET c == ProjectPhotoClips
           fade == cop.frame.effective_fade_duration
       IN  /\ Len(c) = Len(cop.photo_clips)
           /\ \A i \in 1 .. Len(c) :
                /\ c[i].duration =
                     IF i < Len(c) THEN RAdd(cop.photo_clips[i].duration, fade)
                     ELSE cop.photo_clips[i].duration
                /\ c[i].end = c[i].duration
           /\ \A i \in 1 .. (Len(c) - 1) :
                c[i + 1].position = RSub(RAdd(c[i].position, c[i].duration), fade)

\* a written project of at least three photo clips with a positive transition
C9_Witness ==
    /\ project_data.written
    /\ Len(ProjectPhotoClips) >= 3
    /\ RLt(Zero, cop.frame.effective_fade_duration)

\* C10: every emitted transition (project transition descriptor, render xfade)
\* lasts at most half the duration of each of the two placements it blends,
\* the final, clipped placement included.
C10_TransitionHalfOfBlended ==
    /\ project_data.written
       => \A k \in 1 .. Len(project_data.effects) :
            LET half(i) == RDiv(cop.photo_clips[i].duration, RInt(2))
            IN  /\ RLe(project_data.effects[k].duration, half(k))
                /\ RLe(project_data.effects[k].duration, half(k + 1))
    /\ rv.slideshow_cmd = "xfade"
       => \A i \in 1 .. Len(rv.xfades) :
            LET half(j) == RDiv(rv.photo_schedule[j].duration, RInt(2))
            IN  /\ RLe(rv.xfades[i].duration, half(i))
                /\ RLe(rv.xfades[i].duration, half(i + 1))

(***************************************************************************)
(* Scheduling claims C11 .. C16                                             *)
(***************************************************************************)
\* C11: with one photo, a window longer than 0 and any requested photo
\* duration > 0 (smaller than the window included), the finished schedule is
\* exactly one placement that starts at slideshow_start and spans the whole
\* window.
C11_SinglePhotoFullWindow ==
    \A r \in ScheduleRuns :
        ( /\ r.done
          /\ Len(r.frame.photos) = 1
          /\ RLt(Zero, r.frame.slideshow_duration)
          /\ RLt(Zero, r.frame.photo_duration) )
        => r.placements = << [ photo |-> r.frame.photos[1],
                               start |-> r.frame.slideshow_start,
                               duration |-> r.frame.slideshow_duration ] >>

\* the window each entry point computes from the arguments of the run
\* (when the trim leaves no audio the function raises before any adjustment)
CopWindow ==
    LET audio_duration == RSub(RSub(args.audio, args.trim_start), args.trim_end)
        io == IF RLe(audio_duration, Zero)
              THEN <<args.intro_duration, args.outro_duration>>
              ELSE AutoShrink(audio_duration, args.intro_duration, args.outro_duration)
    IN  RSub(RSub(audio_duration, io[1]), io[2])
RenderWindow == RSub(RSub(args.audio, args.intro_duration), args.outro_duration)
WindowOf(by) == IF by = "create_openshot_project" THEN CopWindow ELSE RenderWindow

\* C12: when the window has length 0 (intro + outro equal the audio
\* duration), each of render_video, render_video_with_libopenshot and
\* create_openshot_project leaves its schedule loop at once with an empty
\* placement list, and none of them raises the timing error.
C12_EmptyWindowAccepted ==
    /\ \A r \in ScheduleRuns :
         ( r.frame.photos # <<>> /\ r.frame.slideshow_duration = Zero )
         => ( r.placements = <<>> /\ ~LoopCondition(r.frame) /\ r.frame.photo_index = 0 )
    /\ error.kind = "timing" => WindowOf(error.by) # Zero

\* one run in which all three entry points were given a window of length 0:
\* the project was written, libopenshot fell back to render_video
C12_Witness ==
    /\ \A r \in ScheduleRuns :
         /\ r.frame.photos # <<>>
         /\ r.frame.slideshow_duration = Zero
         /\ r.placements = <<>>
    /\ project_data.written
    /\ rv.temp_dir

\* the ceiling of a rational
RCeil(a) == -((-a[1]) \div a[2])

\* C13: for a window longer than 0 and an effective photo duration > 0 the
\* schedule loop ends after at most ceil(slideshow_duration /
\* effective_photo_duration) + 1 iterations: the iteration count never passes
\* that number, the loop condition is false once it is reached, and the cap
\* MaxSteps of the model is not what stops the loop.
C13_LoopBound ==
    \A f \in {cop.frame, lo.frame, rv.frame} :
        ( /\ f.photos # <<>>
          /\ RLt(Zero, f.slideshow_duration)
          /\ RLt(Zero, f.effective_photo_duration) )
        => LET bound == RCeil(RDiv(f.slideshow_duration, f.effective_photo_duration)) + 1
           IN  /\ f.photo_index <= bound
               /\ LoopCondition(f) => ( f.photo_index < bound /\ f.photo_index < MaxSteps )

\* a loop that ended after several iterations, the last of them clipped
C13_Witness ==
    /\ pc = "rv_build"
    /\ rv.frame.photo_index >= 2
    /\ rv.frame.photo_index =
         RCeil(RDiv(rv.frame.slideshow_duration, rv.frame.effective_photo_duration))
    /\ RLt(rv.photo_schedule[Len(rv.photo_schedule)].duration,
           rv.frame.effective_photo_duration)

\* C14: when the effective photo duration is <= 0 while the window is longer
\* than 0 (a requested photo duration of 0), scheduling ends in an error: no
\* entry point goes on to its schedule loop with such a timing.
C14_ZeroPhotoDurationRejected ==
    \A f \in {cop.frame, lo.frame, rv.frame} :
        ~( /\ f.photos # <<>>
           /\ RLt(Zero, f.slideshow_duration)
           /\ RLe(f.effective_photo_duration, Zero) )

\* C15: for non-negative durations, num_photos > 0 and slideshow_duration > 0
\* the photo duration returned by compute_photo_and_fade is > 0.
C15_PhotoDurationPositive ==
    ( /\ FitDone
      /\ fit.num_photos > 0
      /\ RLt(Zero, fit.slideshow_duration)
      /\ RLe(Zero, fit.requested_photo)
      /\ RLe(Zero, fit.requested_fade) )
    => RLt(Zero, fit.result[1])

\* C16: for a window longer than 0, n >= 1 photos and a requested photo
\* duration > 0, the schedule built with the timing of compute_photo_and_fade
\* has at least n placements (so every photo is shown).
C16_EveryPhotoPlaced ==
    \A r \in ScheduleRuns :
        ( /\ r.done
          /\ RLt(Zero, r.frame.slideshow_duration)
          /\ RLt(Zero, r.frame.photo_duration) )
        => /\ Len(r.placements) >= Len(r.frame.photos)
           /\ \A k \in 1 .. Len(r.frame.photos) :
                \E i \in 1 .. Len(r.placements) : r.placements[i].photo = r.frame.photos[k]

\* three photos, a requested duration that would leave room for fewer than
\* three placements, and exactly three placements
C16_Witness ==
    /\ RvScheduled
    /\ Len(rv.frame.photos) = 3
    /\ RLt(RDiv(rv.frame.slideshow_duration, RInt(3)), rv.frame.photo_duration)
    /\ Len(rv.photo_schedule) = 3

(***************************************************************************)
(* render_video pipeline claims C17 .. C20                                  *)
(***************************************************************************)
\* render_video returned without an exception
RenderVideoSucceeded == pc = "exit_ok" /\ rv.output.exists

\* C17: whenever render_video completes successfully, the final output lasts
\* exactly as long as the audio (slideshow = sum of the placement durations
\* minus (placements - 1) fades, fillers concatenated, loop-extension only
\* when the video is more than 0.1 s short, "-shortest" = the minimum of the
\* video and the audio).
C17_OutputMatchesAudio ==
    RenderVideoSucceeded => rv.output.duration = rv.frame.audio_duration

\* C18: in render_video, once an external invocation of a sub-step
\* (slideshow, duration probe, intro/outro, loop-extension, mux) has failed,
\* no later sub-step is started and render_video ends with an error.
C18_FailureStopsPipeline ==
    /\ \A i \in 1 .. (Len(rv.steps) - 1) : rv.steps[i].ok
    /\ ( \E i \in 1 .. Len(rv.steps) : ~rv.steps[i].ok ) => pc # "exit_ok"

\* C19: once render_video has created the scratch directory, the directory
\* is gone on every way out: success, an exception of the encoder detection,
\* the failure of a stage.
C19_TempDirRemoved ==
    pc \in {"exit_ok", "exit_error"} => ~rv.temp_dir

\* C20: in all three entry points the timing error and the no-photos error
\* are raised before any placement is computed and before any side effect of
\* the function: no scratch directory, no encoder process, no writer, no
\* project data and no project file.
C20_ValidationBeforeEffects ==
    error.kind \in {"timing", "no_photos"} =>
        /\ error.by = "create_openshot_project"
           => ( cop = NoCop /\ project_data = NoProject )
        /\ error.by = "render_video_with_libopenshot"
           => lo = NoLo
        /\ error.by = "render_video"
           => /\ rv.photo_schedule = <<>>
              /\ rv.frame.photos = <<>>
              /\ rv.frame.photo_index = 0
              /\ ~rv.temp_dir
              /\ rv.steps = <<>>
              /\ rv.output = NoFile

\* render_video refused a window shorter than 0
C20_Witness ==
    /\ pc = "exit_error"
    /\ error = [ by |-> "render_video", kind |-> "timing" ]
    /\ RLt(RenderWindow, Zero)
    /\ rv = RenderParams

(***************************************************************************)
(* Window and auto-adjustment claims C21 .. C23, C27, C28                   *)
(***************************************************************************)
\* C21: no entry point builds a schedule over a negative window: whenever a
\* schedule loop of render_video, render_video_with_libopenshot or
\* create_openshot_project (after its auto-adjustment) has been entered,
\* slideshow_duration >= 0 and slideshow_start >= 0, and a timing error is
\* raised only by an entry point whose window is negative.
C21_NoNegativeWindow ==
    /\ \A f \in {cop.frame, lo.frame, rv.frame} :
         f.photos # <<>> => ( RLe(Zero, f.slideshow_duration) /\ RLe(Zero, f.slideshow_start) )
    /\ RLt(CopWindow, Zero) => cop.frame.photos = <<>>
    /\ RLt(RenderWindow, Zero) => ( lo.frame.photos = <<>> /\ rv.frame.photos = <<>> )
    /\ error.kind = "timing" => RLt(WindowOf(error.by), Zero)

\* create_openshot_project adjusted intro and outro, the window stayed
\* negative and the timing error was raised
C21_Witness ==
    /\ pc = "exit_error"
    /\ error = [ by |-> "create_openshot_project", kind |-> "timing" ]
    /\ AutoShrinkApplies(RSub(RSub(args.audio, args.trim_start), args.trim_end),
                         args.intro_duration, args.outro_duration)
    /\ cop.frame.photos = <<>>

\* C22: whenever create_openshot_project applies the auto-adjustment, the
\* adjusted intro_duration + outro_duration is at most 60% of the trimmed
\* audio duration and each of the two is at least 5 s (for 100 / 90 / 20 the
\* result is 49 and 10).
C22_ShrinkWithinTarget ==
    /\ AutoShrink(RInt(100), RInt(90), RInt(20)) = <<RInt(49), RInt(10)>>
    /\ ( ShrinkCreateDone /\ shrink.create.applied )
       => /\ RLe(RAdd(shrink.create.intro_duration, shrink.create.outro_duration),
                 RMul(shrink.audio_duration, SHRINK_TARGET))
          /\ RLe(RInt(MIN_INTRO_OUTRO), shrink.create.intro_duration)
          /\ RLe(RInt(MIN_INTRO_OUTRO), shrink.create.outro_duration)

\* C23: create_openshot_project applies the auto-adjustment whenever
\* intro_duration + outro_duration is more than 80% of the trimmed audio
\* duration, also when intro + outro still fit into the audio.
C23_ShrinkAboveTrigger ==
    ( /\ ShrinkCreateDone
      /\ RLt(RMul(shrink.audio_duration, SHRINK_TRIGGER),
             RAdd(shrink.intro_duration, shrink.outro_duration)) )
    => shrink.create.applied

\* C27: for the same audio duration, intro and outro (no trim),
\* create_openshot_project and render_video agree: both raise the timing
\* error, or both accept with the same slideshow_start and slideshow_duration.
C27_SameFeasibility ==
    ( ShrinkCreateDone /\ ShrinkRenderDone )
    => /\ shrink.create.error = shrink.render.error
       /\ shrink.create.error = ""
          => /\ shrink.create.slideshow_start = shrink.render.slideshow_start
             /\ shrink.create.slideshow_duration = shrink.render.slideshow_duration

\* C28: the auto-adjustment only scales down: once applied, the adjusted
\* intro_duration is <= the requested one and the adjusted outro_duration is
\* <= the requested one.
C28_ShrinkOnlyDown ==
    ( ShrinkCreateDone /\ shrink.create.applied )
    => /\ RLe(shrink.create.intro_duration, shrink.intro_duration)
       /\ RLe(shrink.create.outro_duration, shrink.outro_duration)

(***************************************************************************)
(* Project and schedule claims C24 .. C26, C29, C30                         *)
(***************************************************************************)
\* the entries of the files list with a given id
FilesWithId(id) == { k \in 1 .. Len(project_data.files) : project_data.files[k].id = id }

SameInputs(f, g) ==
    /\ f.audio_duration = g.audio_duration
    /\ f.intro_duration = g.intro_duration
    /\ f.outro_duration = g.outro_duration
    /\ f.photos = g.photos
    /\ f.photo_duration = g.photo_duration
    /\ f.fade_duration = g.fade_duration

FellBack == args.use_libopenshot /\ rv.frame.photos # <<>>

\* C26: compute_photo_and_fade is idempotent: applied to its own result with
\* the same slideshow_duration and num_photos it returns that result; so the
\* fallback of render_video_with_libopenshot, which passes the adjusted
\* durations on, schedules in render_video with the same effective timing
\* and the same placements as the libopenshot attempt.
C26_FallbackSameTiming ==
    /\ \A f \in {cop.frame, lo.frame, rv.frame} :
         f.photos # <<>>
         => compute_photo_and_fade(f.slideshow_duration, Len(f.photos),
                                   f.effective_photo_duration, f.effective_fade_duration)
            = <<f.effective_photo_duration, f.effective_fade_duration>>
    /\ FellBack
       => /\ rv.frame.photo_duration = lo.frame.effective_photo_duration
          /\ rv.frame.fade_duration = lo.frame.effective_fade_duration
          /\ rv.frame.effective_photo_duration = lo.frame.effective_photo_duration
          /\ rv.frame.effective_fade_duration = lo.frame.effective_fade_duration
          /\ RvScheduled => RvPlacements = LoPlacements

\* a fallback after libopenshot had shortened both the photo duration and the
\* fade
C26_Witness ==
    /\ FellBack
    /\ RvScheduled
    /\ RLt(lo.frame.effective_photo_duration, lo.frame.photo_duration)
    /\ RLt(lo.frame.effective_fade_duration, lo.frame.fade_duration)
    /\ Len(RvPlacements) >= 2

\* C29: in the written project no photo clip and no transition reaches past
\* the end of the slideshow window: position + duration <=
\* slideshow_start + slideshow_duration for every photo clip and for every
\* transition.
C29_NothingPastWindowEnd ==
    project_data.written
    => /\ \A j \in 1 .. Len(ProjectPhotoClips) :
            RLe(RAdd(ProjectPhotoClips[j].position, ProjectPhotoClips[j].duration),
                WindowEnd(cop.frame))
       /\ \A t \in 1 .. Len(project_data.effects) :
            RLe(RAdd(project_data.effects[t].position, project_data.effects[t].duration),
                WindowEnd(cop.frame))

\* C30: whenever render_video takes the multi-photo branch (the schedule does
\* not have exactly one placement), the filter graph has len(schedule) - 1
\* xfade steps chained in placement order and the last step defines the [out]
\* label that the command maps, the empty schedule of a window of length 0
\* included.
C30_XfadeChainDefinesOut ==
    rv.slideshow_cmd = "xfade"
    => LET n == Len(rv.photo_schedule)
           x == rv.xfades
       IN  /\ Len(x) = n - 1
           /\ \A i \in 1 .. Len(x) :
                /\ x[i].inputs[2] = <<"v", i>>
                /\ x[i].inputs[1] = IF i = 1 THEN <<"v", 0>> ELSE x[i - 1].output
           /\ x # <<>>
           /\ x[Len(x)].output = <<"out", 0>>

====
